---- MODULE Spec2Model ----
(***************************************************************************)
(* Entity schema layer of divine-simulator-dashboard (src/app/models.py). *)
(*                                                                         *)
(* Decimal quantities are modelled in tenths: Decimal("1.0") is 10 and     *)
(* Decimal("100") is 1000.  An Optional value, a keyword argument that may *)
(* be left out, and a field of an Update shape are modelled as a tuple:    *)
(* <<>> is None / omitted, <<v>> is the value v.  Each table is the        *)
(* sequence of its rows; the primary key of a row is its position.        *)
(***************************************************************************)
EXTENDS Integers, Sequences, FiniteSets, TLC

\* Model bounds.
MaxRows == 1        \* rows of the parent tables together, and of the child tables together
MaxRefRows == 2     \* rows the database holds in SpecRefs, SpecMission, SpecShield
MaxTime == 1        \* last reading of the clock
MaxStepOrder == 2   \* largest step_order a caller passes
MaxHealings == 2    \* largest total_healings a caller writes
MaxProtocols == 1   \* protocols (and glyphs) beside the steps of SpecProtocol
MaxSteps == 2       \* steps in SpecProtocol

\* Program constants (tenths for decimals).
PctMin == 0
PctMax == 1000
GlyphPowerLevelDefault == 10
ProtocolSuccessRateDefault == 850
ResonanceLevelDefault == 500
HarmonyIndexDefault == 500
SyncStabilityDefault == 750
ShieldIntegrityDefault == 1000
ShieldEnergyLevelDefault == 1000
ModuleEnergyEfficiencyDefault == 850
MissionProgressDefault == 0
ShieldUptimeDefault == 0
ModuleTotalHealingsDefault == 0

VARIABLES
    glyphs,         \* table glyphs
    protocols,      \* table transformation_protocols
    steps,          \* table transformation_steps
    missions,       \* table missions
    log_entries,    \* table mission_log_entries
    resonances,     \* table emotional_resonances
    shields,        \* table quantum_shields
    modules,        \* table healing_modules
    now,            \* the clock datetime.utcnow reads
    listing,        \* the last protocol.steps that was read, as step_order values
    result          \* the last operation: its name, its outcome and the row it wrote

tables == <<glyphs, protocols, steps, missions, log_entries, resonances,
            shields, modules>>
vars == <<glyphs, protocols, steps, missions, log_entries, resonances,
          shields, modules, now, listing, result>>

None == <<>>
Some(v) == <<v>>
Opt(S) == {None} \cup {Some(v) : v \in S}

\* Values a caller passes for a percentage: both ends of the range and the
\* nearest values outside it.
PctInputs == {PctMin - 1, PctMin, PctMax, PctMax + 1}
\* One value inside the range and one outside it.
PctInputs2 == {PctMin, PctMax + 1}
Times == 0..MaxTime
StepOrders == 1..MaxStepOrder
Healings == 0..MaxHealings

MissionStatus == {"pending", "active", "completed", "failed", "suspended"}
ShieldStatus == {"optimal", "degraded", "critical", "offline", "regenerating"}

\* The slip `value or default`: a supplied zero is taken for a missing value.
OrDefaultFalsy(opt, d) ==
    IF opt = None THEN d ELSE IF opt[1] = 0 THEN d ELSE opt[1]

\* Field(default=d): the default fills in only a keyword that was left out.
OrDefault(opt, d) == IF opt = None THEN d ELSE opt[1]

\* Field(ge=0, le=100) on a value that is present.
GeLe(v) == v >= PctMin /\ v <= PctMax
\* Optional[...] = Field(default=None, ge=0, le=100): None passes.
OptGeLe(opt) == IF opt = None THEN TRUE ELSE GeLe(opt[1])

\* Optional[<Enum>] = Field(default=None): None or a member.
OptIn(opt, S) == IF opt = None THEN TRUE ELSE opt[1] \in S

utcnow == now

Outcome(op, outcome, id) == [op |-> op, outcome |-> outcome, id |-> id]

RowCount ==
    Len(glyphs) + Len(protocols) + Len(steps) + Len(missions)
    + Len(log_entries) + Len(resonances) + Len(shields) + Len(modules)

\* foreign_key="<table>.id": the row a reference names is in the table.
Exists(table, id) == id \in 1..Len(table)
\* the same for an Optional reference: NULL refers to nothing.
OptExists(table, opt) == IF opt = None THEN TRUE ELSE Exists(table, opt[1])

\* The slip `row.is_active = bool(update.is_active)`: None becomes False.
ApplyUpdateFalsy(row, upd) ==
    [f \in DOMAIN row |->
        IF f \in DOMAIN upd
          THEN IF upd[f] # None THEN upd[f][1]
               ELSE IF f = "is_active" THEN FALSE ELSE row[f]
          ELSE row[f]]

\* Partial patch: a field of the Update shape that is None leaves the row's
\* field as it is; a field the shape does not have is never touched.
ApplyUpdate(row, upd) ==
    [f \in DOMAIN row |->
        IF f \in DOMAIN upd /\ upd[f] # None THEN upd[f][1] ELSE row[f]]

Init ==
    /\ glyphs = <<>>
    /\ protocols = <<>>
    /\ steps = <<>>
    /\ missions = <<>>
    /\ log_entries = <<>>
    /\ resonances = <<>>
    /\ shields = <<>>
    /\ modules = <<>>
    /\ now = 0
    /\ listing = <<>>
    /\ result = Outcome("init", "ok", 0)

Tick ==
    /\ now < MaxTime
    /\ now' = now + 1
    /\ UNCHANGED <<tables, listing, result>>

----------------------------------------------------------------------------
\* Glyph

\* class Glyph(SQLModel, table=True): a table model's constructor stores the
\* keywords it is given without validating them; defaults fill the rest.
Glyph(kw) ==
    [power_level   |-> OrDefault(kw.power_level, GlyphPowerLevelDefault),
     is_active     |-> OrDefault(kw.is_active, TRUE),
     discovered_at |-> OrDefault(kw.discovered_at, utcnow),
     last_used     |-> None]

GlyphKw == [power_level : Opt(PctInputs), is_active : {None},
            discovered_at : Opt(Times)]

\* class GlyphCreate(SQLModel, table=False): validated on construction.
GlyphCreateKw(P) == [power_level : Opt(P)]
GlyphCreateValid(kw) == OptGeLe(kw.power_level)
GlyphCreate(kw) ==
    [power_level |-> OrDefault(kw.power_level, GlyphPowerLevelDefault)]

\* An Update shape that also carries the creation timestamp.
GlyphUpdateKwTimestamp(P) ==
    [power_level : Opt(P), is_active : Opt(BOOLEAN), discovered_at : Opt(Times)]

\* class GlyphUpdate(SQLModel, table=False)
GlyphUpdateKw(P) == [power_level : Opt(P), is_active : Opt(BOOLEAN)]
GlyphUpdateValid(kw) == OptGeLe(kw.power_level)

\* GlyphCreate(**request) -> Glyph(**create.model_dump()) -> INSERT
CreateGlyph(kw) ==
    /\ IF GlyphCreateValid(kw)
         THEN /\ glyphs' = Append(glyphs,
                     Glyph([power_level   |-> Some(GlyphCreate(kw).power_level),
                            is_active     |-> None,
                            discovered_at |-> None]))
              /\ result' = Outcome("CreateGlyph", "ok", Len(glyphs) + 1)
         ELSE /\ UNCHANGED glyphs
              /\ result' = Outcome("CreateGlyph", "ValidationError", 0)
    /\ UNCHANGED <<protocols, steps, missions, log_entries, resonances,
                   shields, modules, now, listing>>

\* Glyph(**kw) -> INSERT
ConstructGlyph(kw) ==
    /\ glyphs' = Append(glyphs, Glyph(kw))
    /\ result' = Outcome("ConstructGlyph", "ok", Len(glyphs) + 1)
    /\ UNCHANGED <<protocols, steps, missions, log_entries, resonances,
                   shields, modules, now, listing>>

\* GlyphUpdate(**request) applied to the row id
UpdateGlyph(id, kw) ==
    /\ Exists(glyphs, id)
    /\ IF GlyphUpdateValid(kw)
         THEN /\ glyphs' = [glyphs EXCEPT ![id] = ApplyUpdate(@, kw)]
              /\ result' = Outcome("UpdateGlyph", "ok", id)
         ELSE /\ UNCHANGED glyphs
              /\ result' = Outcome("UpdateGlyph", "ValidationError", 0)
    /\ UNCHANGED <<protocols, steps, missions, log_entries, resonances,
                   shields, modules, now, listing>>

----------------------------------------------------------------------------
\* TransformationProtocol and TransformationStep

\* class TransformationProtocol(SQLModel, table=True)
TransformationProtocol(kw) ==
    [success_rate  |-> OrDefault(kw.success_rate, ProtocolSuccessRateDefault),
     is_active     |-> OrDefault(kw.is_active, TRUE),
     created_at    |-> OrDefault(kw.created_at, utcnow),
     last_modified |-> OrDefault(kw.last_modified, utcnow)]

\* class TransformationProtocolCreate(SQLModel, table=False)
TransformationProtocolCreateKw(P) == [success_rate : Opt(P)]
TransformationProtocolCreateValid(kw) == OptGeLe(kw.success_rate)
TransformationProtocolCreate(kw) ==
    [success_rate |-> OrDefault(kw.success_rate, ProtocolSuccessRateDefault)]

\* TransformationProtocolCreate(**request) -> TransformationProtocol -> INSERT
CreateProtocol(kw) ==
    /\ IF TransformationProtocolCreateValid(kw)
         THEN /\ protocols' = Append(protocols,
                     TransformationProtocol(
                         [success_rate  |-> Some(TransformationProtocolCreate(kw).success_rate),
                          is_active     |-> None,
                          created_at    |-> None,
                          last_modified |-> None]))
              /\ result' = Outcome("CreateProtocol", "ok", Len(protocols) + 1)
         ELSE /\ UNCHANGED protocols
              /\ result' = Outcome("CreateProtocol", "ValidationError", 0)
    /\ UNCHANGED <<glyphs, steps, missions, log_entries, resonances,
                   shields, modules, now, listing>>

\* protocol.is_active = v; commit.  The columns of the row that are not
\* assigned keep their values: last_modified has a default and no onupdate.
UpdateProtocol(id, v) ==
    /\ Exists(protocols, id)
    /\ protocols' = [protocols EXCEPT ![id].is_active = v]
    /\ result' = Outcome("UpdateProtocol", "ok", id)
    /\ UNCHANGED <<glyphs, steps, missions, log_entries, resonances,
                   shields, modules, now, listing>>

\* class TransformationStep(SQLModel, table=True); protocol_id and
\* step_order have no default.
TransformationStep(kw) ==
    [protocol_id |-> kw.protocol_id,
     glyph_id    |-> kw.glyph_id,
     step_order  |-> kw.step_order]

TransformationStepKw(O) ==
    [protocol_id : 1..(Len(protocols) + 1), glyph_id : Opt({1}),
     step_order : O]

\* protocol_id declared without foreign_key.
TransformationStepConstraintsNoFk(row) == OptExists(glyphs, row.glyph_id)

\* The constraints the table transformation_steps declares: its two foreign
\* keys.  step_order carries no unique constraint.
TransformationStepConstraints(row) ==
    /\ Exists(protocols, row.protocol_id)
    /\ OptExists(glyphs, row.glyph_id)

\* TransformationStep(**kw) -> INSERT
InsertStep(kw) ==
    /\ IF TransformationStepConstraints(TransformationStep(kw))
         THEN /\ steps' = Append(steps, TransformationStep(kw))
              /\ result' = Outcome("InsertStep", "ok", Len(steps) + 1)
         ELSE /\ UNCHANGED steps
              /\ result' = Outcome("InsertStep", "ReferenceError", 0)
    /\ UNCHANGED <<glyphs, protocols, missions, log_entries, resonances,
                   shields, modules, now, listing>>

StepsOf(p) == {i \in 1..Len(steps) : steps[i].protocol_id = p}

\* The orders in which protocol.steps may come back: the relationship names
\* no order_by, so the SELECT has no ORDER BY and any order is possible.
StepsOrderings(p) ==
    LET idx == StepsOf(p)
        n == Cardinality(idx)
    IN {f \in [1..n -> idx] : \A a, b \in 1..n : a # b => f[a] # f[b]}

\* protocol.steps
ListSteps(p) ==
    /\ Exists(protocols, p)
    /\ \E f \in StepsOrderings(p) :
          listing' = [k \in DOMAIN f |-> steps[f[k]].step_order]
    /\ result' = Outcome("ListSteps", "ok", p)
    /\ UNCHANGED <<tables, now>>

----------------------------------------------------------------------------
\* Mission and MissionLogEntry

\* class Mission(SQLModel, table=True)
Mission(kw) ==
    [status              |-> OrDefault(kw.status, "pending"),
     protocol_id         |-> kw.protocol_id,
     progress_percentage |-> OrDefault(kw.progress_percentage, MissionProgressDefault),
     actual_completion   |-> kw.actual_completion,
     created_at          |-> OrDefault(kw.created_at, utcnow),
     started_at          |-> kw.started_at]

MissionKw ==
    [status : Opt({"completed"}), protocol_id : {None},
     progress_percentage : {None}, actual_completion : Opt(Times),
     created_at : {None}, started_at : Opt(Times)]

\* The constraint the table missions declares: its optional foreign key.
MissionConstraints(row) == OptExists(protocols, row.protocol_id)

\* class MissionCreate(SQLModel, table=False): no status, progress,
\* actual_completion or started_at.
MissionCreateKw(R) == [protocol_id : Opt(R)]
MissionCreate(kw) == [protocol_id |-> kw.protocol_id]

\* class MissionUpdate(SQLModel, table=False)
MissionUpdateKw(P) ==
    [status : Opt({"active", "completed"}), progress_percentage : Opt(P)]
MissionUpdateValid(kw) ==
    /\ OptIn(kw.status, MissionStatus)
    /\ OptGeLe(kw.progress_percentage)

\* MissionCreate(**request) -> Mission(**create.model_dump()) -> INSERT
CreateMission(kw) ==
    /\ LET row == Mission([status              |-> None,
                        protocol_id         |-> MissionCreate(kw).protocol_id,
                        progress_percentage |-> None,
                        actual_completion   |-> None,
                        created_at          |-> None,
                        started_at          |-> None])
       IN IF MissionConstraints(row)
            THEN /\ missions' = Append(missions, row)
                 /\ result' = Outcome("CreateMission", "ok", Len(missions) + 1)
            ELSE /\ UNCHANGED missions
                 /\ result' = Outcome("CreateMission", "ReferenceError", 0)
    /\ UNCHANGED <<glyphs, protocols, steps, log_entries, resonances,
                   shields, modules, now, listing>>

\* Mission(**kw) -> INSERT
ConstructMission(kw) ==
    /\ MissionConstraints(Mission(kw))
    /\ missions' = Append(missions, Mission(kw))
    /\ result' = Outcome("ConstructMission", "ok", Len(missions) + 1)
    /\ UNCHANGED <<glyphs, protocols, steps, log_entries, resonances,
                   shields, modules, now, listing>>

\* MissionUpdate(**request) applied to the row id
UpdateMission(id, kw) ==
    /\ Exists(missions, id)
    /\ IF MissionUpdateValid(kw)
         THEN /\ missions' = [missions EXCEPT ![id] = ApplyUpdate(@, kw)]
              /\ result' = Outcome("UpdateMission", "ok", id)
         ELSE /\ UNCHANGED missions
              /\ result' = Outcome("UpdateMission", "ValidationError", 0)
    /\ UNCHANGED <<glyphs, protocols, steps, log_entries, resonances,
                   shields, modules, now, listing>>

\* class MissionLogEntry(SQLModel, table=True); mission_id has no default.
MissionLogEntry(kw) ==
    [mission_id |-> kw.mission_id,
     created_at |-> OrDefault(kw.created_at, utcnow)]

MissionLogEntryKw == [mission_id : 1..(Len(missions) + 1), created_at : {None}]

MissionLogEntryConstraints(row) == Exists(missions, row.mission_id)

\* MissionLogEntry(**kw) -> INSERT
InsertLogEntry(kw) ==
    /\ IF MissionLogEntryConstraints(MissionLogEntry(kw))
         THEN /\ log_entries' = Append(log_entries, MissionLogEntry(kw))
              /\ result' = Outcome("InsertLogEntry", "ok", Len(log_entries) + 1)
         ELSE /\ UNCHANGED log_entries
              /\ result' = Outcome("InsertLogEntry", "ReferenceError", 0)
    /\ UNCHANGED <<glyphs, protocols, steps, missions, resonances,
                   shields, modules, now, listing>>

----------------------------------------------------------------------------
\* EmotionalResonance

\* class EmotionalResonance(SQLModel, table=True)
EmotionalResonance(kw) ==
    [resonance_level |-> OrDefault(kw.resonance_level, ResonanceLevelDefault),
     harmony_index   |-> OrDefault(kw.harmony_index, HarmonyIndexDefault),
     sync_stability  |-> OrDefault(kw.sync_stability, SyncStabilityDefault),
     recorded_at     |-> OrDefault(kw.recorded_at, utcnow)]

\* class EmotionalResonanceCreate(SQLModel, table=False)
EmotionalResonanceCreateKw(P, Q) ==
    [resonance_level : Opt(P), harmony_index : Opt(Q), sync_stability : Opt(Q)]
EmotionalResonanceCreateValid(kw) ==
    /\ OptGeLe(kw.resonance_level)
    /\ OptGeLe(kw.harmony_index)
    /\ OptGeLe(kw.sync_stability)
EmotionalResonanceCreate(kw) ==
    [resonance_level |-> OrDefault(kw.resonance_level, ResonanceLevelDefault),
     harmony_index   |-> OrDefault(kw.harmony_index, HarmonyIndexDefault),
     sync_stability  |-> OrDefault(kw.sync_stability, SyncStabilityDefault)]

\* EmotionalResonanceCreate(**request) -> EmotionalResonance -> INSERT
CreateResonance(kw) ==
    /\ IF EmotionalResonanceCreateValid(kw)
         THEN /\ resonances' = Append(resonances,
                     EmotionalResonance(
                         [resonance_level |-> Some(EmotionalResonanceCreate(kw).resonance_level),
                          harmony_index   |-> Some(EmotionalResonanceCreate(kw).harmony_index),
                          sync_stability  |-> Some(EmotionalResonanceCreate(kw).sync_stability),
                          recorded_at     |-> None]))
              /\ result' = Outcome("CreateResonance", "ok", Len(resonances) + 1)
         ELSE /\ UNCHANGED resonances
              /\ result' = Outcome("CreateResonance", "ValidationError", 0)
    /\ UNCHANGED <<glyphs, protocols, steps, missions, log_entries,
                   shields, modules, now, listing>>

----------------------------------------------------------------------------
\* QuantumShield and HealingModule

\* class QuantumShield(SQLModel, table=True)
QuantumShield(kw) ==
    [status               |-> OrDefault(kw.status, "optimal"),
     integrity_percentage |-> OrDefault(kw.integrity_percentage, ShieldIntegrityDefault),
     energy_level         |-> OrDefault(kw.energy_level, ShieldEnergyLevelDefault),
     uptime_hours         |-> OrDefault(kw.uptime_hours, ShieldUptimeDefault),
     status_updated_at    |-> OrDefault(kw.status_updated_at, utcnow)]

\* class QuantumShieldCreate(SQLModel, table=False)
QuantumShieldCreateKw(P) ==
    [status : {None}, integrity_percentage : Opt(P), energy_level : Opt(P)]
QuantumShieldCreateValid(kw) ==
    /\ OptIn(kw.status, ShieldStatus)
    /\ OptGeLe(kw.integrity_percentage)
    /\ OptGeLe(kw.energy_level)
QuantumShieldCreate(kw) ==
    [status               |-> OrDefault(kw.status, "optimal"),
     integrity_percentage |-> OrDefault(kw.integrity_percentage, ShieldIntegrityDefault),
     energy_level         |-> OrDefault(kw.energy_level, ShieldEnergyLevelDefault)]

\* class QuantumShieldUpdate(SQLModel, table=False)
QuantumShieldUpdateKw(P) ==
    [status : Opt({"degraded"}), integrity_percentage : Opt(P),
     energy_level : Opt(P)]
QuantumShieldUpdateValid(kw) ==
    /\ OptIn(kw.status, ShieldStatus)
    /\ OptGeLe(kw.integrity_percentage)
    /\ OptGeLe(kw.energy_level)

\* QuantumShieldCreate(**request) -> QuantumShield -> INSERT
CreateShield(kw) ==
    /\ IF QuantumShieldCreateValid(kw)
         THEN /\ shields' = Append(shields,
                     QuantumShield(
                         [status               |-> Some(QuantumShieldCreate(kw).status),
                          integrity_percentage |-> Some(QuantumShieldCreate(kw).integrity_percentage),
                          energy_level         |-> Some(QuantumShieldCreate(kw).energy_level),
                          uptime_hours         |-> None,
                          status_updated_at    |-> None]))
              /\ result' = Outcome("CreateShield", "ok", Len(shields) + 1)
         ELSE /\ UNCHANGED shields
              /\ result' = Outcome("CreateShield", "ValidationError", 0)
    /\ UNCHANGED <<glyphs, protocols, steps, missions, log_entries,
                   resonances, modules, now, listing>>

\* QuantumShieldUpdate(**request) applied to the row id
UpdateShield(id, kw) ==
    /\ Exists(shields, id)
    /\ IF QuantumShieldUpdateValid(kw)
         THEN /\ shields' = [shields EXCEPT ![id] = ApplyUpdate(@, kw)]
              /\ result' = Outcome("UpdateShield", "ok", id)
         ELSE /\ UNCHANGED shields
              /\ result' = Outcome("UpdateShield", "ValidationError", 0)
    /\ UNCHANGED <<glyphs, protocols, steps, missions, log_entries,
                   resonances, modules, now, listing>>

\* class HealingModule(SQLModel, table=True); shield_id has no default.
HealingModule(kw) ==
    [shield_id         |-> kw.shield_id,
     energy_efficiency |-> OrDefault(kw.energy_efficiency, ModuleEnergyEfficiencyDefault),
     total_healings    |-> OrDefault(kw.total_healings, ModuleTotalHealingsDefault),
     created_at        |-> OrDefault(kw.created_at, utcnow)]

HealingModuleConstraints(row) == Exists(shields, row.shield_id)

\* class HealingModuleCreate(SQLModel, table=False)
HealingModuleCreateKw(P) ==
    [shield_id : 1..(Len(shields) + 1), energy_efficiency : Opt(P)]
HealingModuleCreateValid(kw) == OptGeLe(kw.energy_efficiency)
HealingModuleCreate(kw) ==
    [shield_id         |-> kw.shield_id,
     energy_efficiency |-> OrDefault(kw.energy_efficiency, ModuleEnergyEfficiencyDefault)]

\* HealingModuleCreate(**request) -> HealingModule -> INSERT
CreateHealingModule(kw) ==
    /\ LET row == HealingModule(
                   [shield_id         |-> HealingModuleCreate(kw).shield_id,
                    energy_efficiency |-> Some(HealingModuleCreate(kw).energy_efficiency),
                    total_healings    |-> None,
                    created_at        |-> None])
       IN IF ~HealingModuleCreateValid(kw)
            THEN /\ UNCHANGED modules
                 /\ result' = Outcome("CreateHealingModule", "ValidationError", 0)
            ELSE IF ~HealingModuleConstraints(row)
            THEN /\ UNCHANGED modules
                 /\ result' = Outcome("CreateHealingModule", "ReferenceError", 0)
            ELSE /\ modules' = Append(modules, row)
                 /\ result' = Outcome("CreateHealingModule", "ok", Len(modules) + 1)
    /\ UNCHANGED <<glyphs, protocols, steps, missions, log_entries,
                   resonances, shields, now, listing>>

\* module.total_healings = n; commit.  Nothing compares n with the stored
\* value.
UpdateHealingModule(id, n) ==
    /\ Exists(modules, id)
    /\ modules' = [modules EXCEPT ![id].total_healings = n]
    /\ result' = Outcome("UpdateHealingModule", "ok", id)
    /\ UNCHANGED <<glyphs, protocols, steps, missions, log_entries,
                   resonances, shields, now, listing>>

----------------------------------------------------------------------------
\* Specifications

\* Rows of the tables that refer to no required parent.
ParentRows ==
    Len(glyphs) + Len(protocols) + Len(missions) + Len(resonances) + Len(shields)

\* Room for one more row: in a parent table, in a child table, in the database.
Room == ParentRows < MaxRows
ChildRoom == Len(steps) + Len(log_entries) + Len(modules) < MaxRows
RefRoom == RowCount < MaxRefRows

\* Every table, written through the Create and Update shapes where the
\* table has them and through the table model where it has none.
Next ==
    \/ Tick
    \/ \E kw \in GlyphCreateKw(PctInputs2) : Room /\ CreateGlyph(kw)
    \/ \E kw \in TransformationProtocolCreateKw(PctInputs2) : Room /\ CreateProtocol(kw)
    \/ \E kw \in TransformationStepKw({1}) : ChildRoom /\ InsertStep(kw)
    \/ \E kw \in MissionCreateKw({}) : Room /\ CreateMission(kw)
    \/ \E kw \in MissionLogEntryKw : ChildRoom /\ InsertLogEntry(kw)
    \/ \E kw \in EmotionalResonanceCreateKw(PctInputs2, {PctMax + 1}) :
          Room /\ CreateResonance(kw)
    \/ \E kw \in QuantumShieldCreateKw(PctInputs2) : Room /\ CreateShield(kw)
    \/ \E kw \in HealingModuleCreateKw(PctInputs2) :
          ChildRoom /\ CreateHealingModule(kw)
    \/ \E id \in 1..Len(glyphs), kw \in GlyphUpdateKw(PctInputs2) : UpdateGlyph(id, kw)
    \/ \E id \in 1..Len(protocols), v \in BOOLEAN : UpdateProtocol(id, v)
    \/ \E id \in 1..Len(missions), kw \in MissionUpdateKw(PctInputs2) : UpdateMission(id, kw)
    \/ \E id \in 1..Len(shields), kw \in QuantumShieldUpdateKw(PctInputs2) : UpdateShield(id, kw)

Spec == Init /\ [][Next]_vars

\* The three tables that have an Update shape.
NextPatch ==
    \/ Tick
    \/ \E kw \in GlyphCreateKw(PctInputs2) : Room /\ CreateGlyph(kw)
    \/ \E kw \in MissionCreateKw({}) : Room /\ CreateMission(kw)
    \/ \E kw \in QuantumShieldCreateKw(PctInputs2) : Room /\ CreateShield(kw)
    \/ \E id \in 1..Len(glyphs), kw \in GlyphUpdateKw(PctInputs2) : UpdateGlyph(id, kw)
    \/ \E id \in 1..Len(missions), kw \in MissionUpdateKw(PctInputs2) : UpdateMission(id, kw)
    \/ \E id \in 1..Len(shields), kw \in QuantumShieldUpdateKw(PctInputs2) : UpdateShield(id, kw)

SpecPatch == Init /\ [][NextPatch]_vars

\* The parent and child tables, rows being created only.
NextRefs ==
    \/ Tick
    \/ \E kw \in GlyphCreateKw({PctMax + 1}) : RefRoom /\ CreateGlyph(kw)
    \/ \E kw \in TransformationProtocolCreateKw({PctMax + 1}) : RefRoom /\ CreateProtocol(kw)
    \/ \E kw \in TransformationStepKw({1}) : RefRoom /\ InsertStep(kw)
    \/ \E kw \in MissionCreateKw({1}) : RefRoom /\ CreateMission(kw)
    \/ \E kw \in MissionLogEntryKw : RefRoom /\ InsertLogEntry(kw)
    \/ \E kw \in QuantumShieldCreateKw({PctMax + 1}) : RefRoom /\ CreateShield(kw)
    \/ \E kw \in HealingModuleCreateKw(PctInputs2) : RefRoom /\ CreateHealingModule(kw)

SpecRefs == Init /\ [][NextRefs]_vars

\* The glyph library, written through the shapes and through the table model.
NextGlyph ==
    \/ Tick
    \/ \E kw \in GlyphCreateKw(PctInputs) : Room /\ CreateGlyph(kw)
    \/ \E kw \in GlyphKw : Room /\ ConstructGlyph(kw)
    \/ \E id \in 1..Len(glyphs), kw \in GlyphUpdateKw(PctInputs) : UpdateGlyph(id, kw)

SpecGlyph == Init /\ [][NextGlyph]_vars

\* One protocol's steps.
NextProtocol ==
    \/ Tick
    \/ \E kw \in GlyphCreateKw({PctMax}) : Len(glyphs) < MaxProtocols /\ CreateGlyph(kw)
    \/ \E kw \in TransformationProtocolCreateKw(PctInputs) :
          Len(protocols) < MaxProtocols /\ CreateProtocol(kw)
    \/ \E kw \in TransformationStepKw(StepOrders) : Len(steps) < MaxSteps /\ InsertStep(kw)
    \/ \E id \in 1..Len(protocols), v \in BOOLEAN : UpdateProtocol(id, v)
    \/ \E p \in 1..Len(protocols) : ListSteps(p)

SpecProtocol == Init /\ [][NextProtocol]_vars

\* The mission tracker, written through the shapes and through the table model.
NextMission ==
    \/ Tick
    \/ \E kw \in TransformationProtocolCreateKw({PctMax}) : RefRoom /\ CreateProtocol(kw)
    \/ \E kw \in MissionCreateKw({1}) : RefRoom /\ CreateMission(kw)
    \/ \E kw \in MissionKw : RefRoom /\ ConstructMission(kw)
    \/ \E kw \in MissionLogEntryKw : RefRoom /\ InsertLogEntry(kw)
    \/ \E id \in 1..Len(missions), kw \in MissionUpdateKw(PctInputs) : UpdateMission(id, kw)

SpecMission == Init /\ [][NextMission]_vars

\* The shields and their healing modules.
NextShield ==
    \/ Tick
    \/ \E kw \in QuantumShieldCreateKw(PctInputs2) : RefRoom /\ CreateShield(kw)
    \/ \E kw \in HealingModuleCreateKw(PctInputs) : RefRoom /\ CreateHealingModule(kw)
    \/ \E id \in 1..Len(shields), kw \in QuantumShieldUpdateKw(PctInputs2) : UpdateShield(id, kw)
    \/ \E id \in 1..Len(modules), n \in Healings : UpdateHealingModule(id, n)

SpecShield == Init /\ [][NextShield]_vars

----------------------------------------------------------------------------
\* Properties

Rows(table) == 1..Len(table)
Last(table) == table[Len(table)]

\* C1: every stored value of a bounded percentage field lies in [0,100],
\* because a value outside the range is refused with a ValidationError
\* wherever an entity is constructed.
C1_StoredPercentagesInRange ==
    /\ \A i \in Rows(glyphs) : GeLe(glyphs[i].power_level)
    /\ \A i \in Rows(protocols) : GeLe(protocols[i].success_rate)
    /\ \A i \in Rows(missions) : GeLe(missions[i].progress_percentage)
    /\ \A i \in Rows(shields) :
          GeLe(shields[i].integrity_percentage) /\ GeLe(shields[i].energy_level)
    /\ \A i \in Rows(resonances) :
          /\ GeLe(resonances[i].resonance_level)
          /\ GeLe(resonances[i].harmony_index)
          /\ GeLe(resonances[i].sync_stability)
    /\ \A i \in Rows(modules) : GeLe(modules[i].energy_efficiency)

\* Every child row's required parent reference resolves.
ParentsResolve ==
    /\ \A i \in Rows(steps) : Exists(protocols, steps[i].protocol_id)
    /\ \A i \in Rows(log_entries) : Exists(missions, log_entries[i].mission_id)
    /\ \A i \in Rows(modules) : Exists(shields, modules[i].shield_id)

C2_Step ==
    \A kw \in TransformationStepKw({1}) :
        InsertStep(kw) =>
            /\ ~Exists(protocols, kw.protocol_id) =>
                  result'.outcome = "ReferenceError" /\ UNCHANGED tables
            /\ (Exists(protocols, kw.protocol_id) /\ kw.glyph_id = None) =>
                  /\ result'.outcome = "ok"
                  /\ Len(steps') = Len(steps) + 1
                  /\ Last(steps').protocol_id = kw.protocol_id
                  /\ Last(steps').glyph_id = None

C2_LogEntry ==
    \A kw \in MissionLogEntryKw :
        InsertLogEntry(kw) =>
            (~Exists(missions, kw.mission_id) =>
                result'.outcome = "ReferenceError" /\ UNCHANGED tables)

C2_HealingModule ==
    \A kw \in HealingModuleCreateKw(PctInputs2) :
        CreateHealingModule(kw) =>
            ((~Exists(shields, kw.shield_id) /\ HealingModuleCreateValid(kw)) =>
                result'.outcome = "ReferenceError" /\ UNCHANGED tables)

\* C2: creating a step, a log entry or a healing module whose required
\* parent does not exist fails with a ReferenceError and stores nothing;
\* creating a step with an existing protocol and no glyph succeeds; so every
\* child's required parent reference resolves after every step.
C2_ReferentialIntegrity ==
    [][C2_Step /\ C2_LogEntry /\ C2_HealingModule /\ ParentsResolve']_vars

\* A step was stored with an existing protocol and no glyph.
C2_Witness ==
    /\ result.op = "InsertStep"
    /\ result.outcome = "ok"
    /\ steps[result.id].glyph_id = None
    /\ Exists(protocols, steps[result.id].protocol_id)

\* new is old with exactly the fields that kw sets replaced by kw's values.
Patched(old, new, kw) ==
    \A f \in DOMAIN old :
        IF f \in DOMAIN kw
          THEN IF kw[f] = None THEN new[f] = old[f] ELSE new[f] = kw[f][1]
          ELSE new[f] = old[f]

\* The rows of the table other than id are as they were.
OthersKept(old, new, id) ==
    /\ Len(new) = Len(old)
    /\ \A j \in Rows(old) : j # id => new[j] = old[j]

C3_Step ==
    /\ \A id \in Rows(glyphs), kw \in GlyphUpdateKw(PctInputs2) :
          (UpdateGlyph(id, kw) /\ result'.outcome = "ok") =>
              Patched(glyphs[id], glyphs'[id], kw) /\ OthersKept(glyphs, glyphs', id)
    /\ \A id \in Rows(missions), kw \in MissionUpdateKw(PctInputs2) :
          (UpdateMission(id, kw) /\ result'.outcome = "ok") =>
              Patched(missions[id], missions'[id], kw) /\ OthersKept(missions, missions', id)
    /\ \A id \in Rows(shields), kw \in QuantumShieldUpdateKw(PctInputs2) :
          (UpdateShield(id, kw) /\ result'.outcome = "ok") =>
              Patched(shields[id], shields'[id], kw) /\ OthersKept(shields, shields', id)

\* C3: applying a GlyphUpdate, MissionUpdate or QuantumShieldUpdate changes
\* exactly the fields that are set in it; a field left at None, and a field
\* the shape does not have, keeps its stored value.
C3_PartialPatch == [][C3_Step]_vars

\* A mission was patched to completed and still has the progress it was
\* created with.
C3_Witness ==
    /\ result.op = "UpdateMission"
    /\ result.outcome = "ok"
    /\ missions[result.id].status = "completed"
    /\ missions[result.id].progress_percentage = MissionProgressDefault

\* C4: the steps of a protocol are listed in ascending step_order.
C4_ListingAscending ==
    result.op = "ListSteps" =>
        \A a, b \in DOMAIN listing : a < b => listing[a] <= listing[b]

\* C5: within one protocol no two steps share a step_order.
C5_StepOrderUnique ==
    \A i, j \in Rows(steps) :
        (i # j /\ steps[i].protocol_id = steps[j].protocol_id)
            => steps[i].step_order # steps[j].step_order

\* C6: a mission whose actual_completion is set is completed, and it did not
\* start after it completed.
C6_CompletionImpliesCompleted ==
    \A i \in Rows(missions) :
        missions[i].actual_completion # None =>
            /\ missions[i].status = "completed"
            /\ missions[i].started_at # None =>
                  missions[i].started_at[1] <= missions[i].actual_completion[1]

\* C7: an update of a protocol row made after the clock has moved on
\* advances the row's last_modified.
C7_LastModifiedAdvances ==
    [][\A i \in Rows(protocols) :
          (protocols'[i] # protocols[i] /\ now > protocols[i].last_modified)
              => protocols'[i].last_modified > protocols[i].last_modified]_vars

\* The creation timestamp of every row that exists is as it was.
TimestampsKept ==
    /\ \A i \in Rows(glyphs) : glyphs'[i].discovered_at = glyphs[i].discovered_at
    /\ \A i \in Rows(protocols) : protocols'[i].created_at = protocols[i].created_at
    /\ \A i \in Rows(missions) : missions'[i].created_at = missions[i].created_at
    /\ \A i \in Rows(log_entries) : log_entries'[i].created_at = log_entries[i].created_at
    /\ \A i \in Rows(modules) : modules'[i].created_at = modules[i].created_at
    /\ \A i \in Rows(resonances) : resonances'[i].recorded_at = resonances[i].recorded_at
    /\ \A i \in Rows(shields) : shields'[i].status_updated_at = shields[i].status_updated_at

\* The creation timestamp of a row that was just created is the current time.
TimestampsAssigned ==
    /\ Len(glyphs') > Len(glyphs) => Last(glyphs').discovered_at = now
    /\ Len(protocols') > Len(protocols) => Last(protocols').created_at = now
    /\ Len(missions') > Len(missions) => Last(missions').created_at = now
    /\ Len(log_entries') > Len(log_entries) => Last(log_entries').created_at = now
    /\ Len(modules') > Len(modules) => Last(modules').created_at = now
    /\ Len(resonances') > Len(resonances) => Last(resonances').recorded_at = now
    /\ Len(shields') > Len(shields) => Last(shields').status_updated_at = now

\* C8: discovered_at, created_at, recorded_at and status_updated_at are set
\* when the row is created, to the time of creation, and no later operation
\* (GlyphUpdate, MissionUpdate and QuantumShieldUpdate among them) changes
\* them.
C8_CreationTimestampsFixed == [][TimestampsAssigned /\ TimestampsKept]_vars

\* A glyph was patched at a time later than its discovery.
C8_Witness ==
    /\ result.op = "UpdateGlyph"
    /\ result.outcome = "ok"
    /\ glyphs[result.id].discovered_at < now
    /\ glyphs[result.id].power_level = PctMin

\* C9: uptime_hours of a shield and total_healings of a healing module never
\* decrease.
C9_CountersNeverDecrease ==
    [][/\ \A i \in Rows(shields) : shields'[i].uptime_hours >= shields[i].uptime_hours
       /\ \A i \in Rows(modules) : modules'[i].total_healings >= modules[i].total_healings]_vars

C10_Step ==
    /\ \A kw \in GlyphCreateKw(PctInputs) :
          (CreateGlyph(kw) /\ result'.outcome = "ok") =>
              Last(glyphs').power_level =
                  IF kw.power_level = None THEN GlyphPowerLevelDefault
                  ELSE kw.power_level[1]
    /\ \A kw \in GlyphKw :
          ConstructGlyph(kw) =>
              Last(glyphs').power_level =
                  IF kw.power_level = None THEN GlyphPowerLevelDefault
                  ELSE kw.power_level[1]

\* C10: a glyph created without power_level stores the default 1.0; a glyph
\* created with a power_level, zero included, stores that value.
C10_DefaultOnlyWhenOmitted == [][C10_Step]_vars

\* A glyph was created through GlyphCreate with power_level 0 and stores 0.
C10_Witness ==
    /\ result.op = "CreateGlyph"
    /\ result.outcome = "ok"
    /\ glyphs[result.id].power_level = PctMin

====
